---- MODULE Spec2Model ----
(***************************************************************************)
(* The asynchronous Engine.IO client socket of rust-socketio               *)
(* (engineio/src/asynchronous/async_socket.rs): connection state, the      *)
(* heartbeat clock, the guarded transport handle, the callback dispatch,   *)
(* the timeout-enforcing stream wrapper and the Stream implementation of   *)
(* the Socket.  Each caller holds a clone of the Socket (the fields are    *)
(* Arc-shared) and runs one async method at a time; a method is cut into   *)
(* one step per access to shared state (atomic load/store, mutex           *)
(* acquisition, transport send), so that every interleaving of the tasks   *)
(* at their await points and between their atomic accesses is a behaviour. *)
(***************************************************************************)
EXTENDS Integers, Sequences, FiniteSets, TLC

\* ------------------------------------------------------------------ bounds

\* Calls (connect, emit, disconnect, dispatch, pulls of the timeout stream)
\* started in one behaviour.
MaxCalls == 3

\* Payloads the transport produces in one behaviour.
MaxPayloads == 2

\* The wall clock advances in steps of TickStep seconds up to MaxTime.
TickStep == 5
Width == 5
MaxTime == 15

\* The tasks that hold a clone of the Socket.
Callers == {1, 2}

\* ------------------------------------------------------- program constants

\* let max_ping_timeout = 10;
max_ping_timeout == 10

PacketIds ==
    {"Open", "Close", "Ping", "Pong", "Message", "MessageBinary", "Upgrade", "Noop"}

Packet(id, data) == [packet_id |-> id, data |-> data]

NoPacket == Packet("Noop", "-")

\* The packets a caller passes to emit.
EmitPackets == {Packet("Message", "x"), Packet("MessageBinary", "x")}

\* The packets a caller passes to handle_incoming_packet.
InboundPackets ==
    {Packet(id, "") : id \in PacketIds \ {"Message", "MessageBinary"}}
        \cup {Packet("Message", "hi"), Packet("MessageBinary", "hi")}

CallbackNames == {"on_close", "on_data", "on_error", "on_open", "on_packet"}

\* The callback sets a Socket is constructed with (each callback is optional).
HandlerSets == {CallbackNames, {}}

\* The events handed to the runtime by handle.spawn: a callback and its argument.
Events ==
    {<<"on_open", "">>, <<"on_close", "">>,
     <<"on_error", "IllegalActionBeforeOpen">>, <<"on_error", "TransportError">>}
        \cup {<<"on_data", "hi">>}
        \cup {<<"on_packet", q.packet_id>> : q \in InboundPackets}

VARIABLES
    connected,   \* Socket.connected: Arc<AtomicBool>
    last_ping,   \* Socket.last_ping: Arc<AtomicU64>, seconds
    now,         \* the wall clock read by current_time_in_seconds
    lock,        \* Socket.transport: Arc<Mutex<..>>: 0 (free) or the holder
    wire,        \* the frames handed to the transport's emit, in order
    handlers,    \* the callbacks that are Some
    spawned,     \* how often each event was handed to handle.spawn
    pc,          \* each caller's position in the method it runs
    op,          \* the method each caller runs (or ran last)
    arg,         \* the packet it was called with
    ret,         \* what the caller's last call returned
    sent,        \* the frames the caller's current (or last) call handed over
    calls,       \* calls started so far
    mpc,         \* the position of the enforce_timeout stream
    armed,       \* the duration its timeout was armed with at the last pull
    deadline,    \* the instant its armed timeout elapses
    myield,      \* the item it yielded last
    rx,          \* the payloads the transport's stream holds ready
    rx_done,     \* the transport's stream has ended
    received,    \* payloads the transport has produced so far
    cur,         \* the packets of the payload being iterated, not yet yielded
    sstate,      \* the packet stream (Socket::stream): "running" or "ended"
    polled,      \* what the last poll_next of the Socket returned
    pulled,      \* the items Socket::stream has taken from the transport's stream
    yielded,     \* the items Socket::stream has yielded, in order
    tt_max,      \* the max_ping_timeout passed to time_to_next_ping
    tt           \* the outcome of the call of time_to_next_ping observed

vars ==
    <<connected, last_ping, now, lock, wire, handlers, spawned, pc, op, arg,
      ret, sent, calls, mpc, armed, deadline, myield, rx, rx_done, received,
      cur, sstate, polled, pulled, yielded, tt_max, tt>>

\* ------------------------------------------------------------ pure helpers

\* u64, scaled to Width bits.
Modulus == 2 ^ Width
U64 == 0..(Modulus - 1)

\* fn time_to_next_ping(last_ping, max_ping_timeout) -> u64, with the clock
\* reading passed in: the value returned when the subtraction of u64 wraps
\* (a build without overflow checks).
time_to_next_ping(current_time, last, max) ==
    LET since_last_ping == (current_time - last) % Modulus
    IN  IF since_last_ping > max THEN 0 ELSE max - since_last_ping

\* The outcome of a call of time_to_next_ping.
NotCalled == [kind |-> "NotCalled", value |-> 0]
Returned(v) == [kind |-> "Returned", value |-> v]
Panicked == [kind |-> "Panicked", value |-> 0]

\* What a call of time_to_next_ping can do: `current_time - last_ping` on u64
\* with last_ping the larger panics in a build with overflow checks and wraps
\* in one without.
time_to_next_ping_outcomes(current_time, last, max) ==
    IF current_time < last
    THEN {Panicked, Returned(time_to_next_ping(current_time, last, max))}
    ELSE {Returned(time_to_next_ping(current_time, last, max))}

\* Bytes::from(packet): the framed encoding, the packet id followed by the
\* payload.
Encode(packet) == <<packet.packet_id, packet.data>>

\* The bytes emit hands to the transport: the raw payload of a binary packet,
\* the framed encoding of any other.
EmitData(packet) ==
    IF packet.packet_id = "MessageBinary"
    THEN <<packet.data>>
    ELSE Encode(packet)

Frame(packet) ==
    [data |-> EmitData(packet), is_binary |-> packet.packet_id = "MessageBinary"]

\* handle.spawn of a callback, when the callback is Some.
Spawn(s, cb, x) ==
    IF cb \in handlers THEN [s EXCEPT ![<<cb, x>>] = @ + 1] ELSE s

\* The packet the caller's method passes to emit.
Outgoing(p) ==
    CASE op[p] = "emit" -> arg[p]
      [] op[p] = "connect" -> Packet("Pong", "")
      [] op[p] = "disconnect" -> Packet("Close", "")
      [] OTHER -> Packet("Pong", "")

\* An item of a packet stream, or the result of polling one.
Item(kind, packet, error) == [kind |-> kind, packet |-> packet, error |-> error]

NoItem == Item("NotPolled", NoPacket, "")

\* A byte sequence that is no packet.
Junk == <<"?", "">>

\* The payloads the transport delivers: a payload is the encodings of its
\* packets one after the other (none, one or several).
Payloads ==
    {<<>>,
     <<Encode(Packet("Ping", "")), Encode(Packet("Message", "hi"))>>,
     <<Encode(Packet("Close", ""))>>,
     <<Encode(Packet("Message", "hi")), Junk>>}

\* What the transport's stream yields: Ok(bytes) or Err(transport error).
TransportItems ==
    {[ok |-> TRUE, bytes |-> b] : b \in Payloads} \cup {[ok |-> FALSE, bytes |-> <<>>]}

\* Payload::try_from(bytes): the packets of the payload, or an error when a
\* part of it is no packet.
Malformed(bytes) == \E i \in 1..Len(bytes) : bytes[i][1] \notin PacketIds

DecodePayload(bytes) == [i \in 1..Len(bytes) |-> Packet(bytes[i][1], bytes[i][2])]

\* StreamNext going on to the next payload after the first packet of one.
RECURSIVE StreamNext_drops(_, _, _, _)
StreamNext_drops(items, c, st, done) ==
    IF st = "ended"
    THEN [res |-> Item("None", NoPacket, ""), rx |-> items, cur |-> c, sstate |-> st]
    ELSE IF c # <<>>
    THEN [res |-> Item("Ok", Head(c), ""), rx |-> items, cur |-> <<>>, sstate |-> st]
    ELSE IF items = <<>>
    THEN IF done
         THEN [res |-> Item("None", NoPacket, ""), rx |-> items, cur |-> c,
               sstate |-> "ended"]
         ELSE [res |-> Item("Pending", NoPacket, ""), rx |-> items, cur |-> c,
               sstate |-> st]
    ELSE IF ~Head(items).ok
    THEN [res |-> Item("Err", NoPacket, "TransportError"), rx |-> Tail(items),
          cur |-> c, sstate |-> "ended"]
    ELSE IF Malformed(Head(items).bytes)
    THEN [res |-> Item("Err", NoPacket, "DecodeError"), rx |-> Tail(items),
          cur |-> c, sstate |-> "ended"]
    ELSE StreamNext_drops(Tail(items), DecodePayload(Head(items).bytes), st, done)

\* StreamNext going on after a payload that failed to decode.
RECURSIVE StreamNext_resumes(_, _, _, _)
StreamNext_resumes(items, c, st, done) ==
    IF st = "ended"
    THEN [res |-> Item("None", NoPacket, ""), rx |-> items, cur |-> c, sstate |-> st]
    ELSE IF c # <<>>
    THEN [res |-> Item("Ok", Head(c), ""), rx |-> items, cur |-> Tail(c), sstate |-> st]
    ELSE IF items = <<>>
    THEN IF done
         THEN [res |-> Item("None", NoPacket, ""), rx |-> items, cur |-> c,
               sstate |-> "ended"]
         ELSE [res |-> Item("Pending", NoPacket, ""), rx |-> items, cur |-> c,
               sstate |-> st]
    ELSE IF ~Head(items).ok
    THEN [res |-> Item("Err", NoPacket, "TransportError"), rx |-> Tail(items),
          cur |-> c, sstate |-> "ended"]
    ELSE IF Malformed(Head(items).bytes)
    THEN [res |-> Item("Err", NoPacket, "DecodeError"), rx |-> Tail(items),
          cur |-> c, sstate |-> st]
    ELSE StreamNext_resumes(Tail(items), DecodePayload(Head(items).bytes), st, done)

\* The next item of Socket::stream with the transport holding `items` ready
\* (`done`: its stream has ended), `c` the packets left of the current
\* payload and `st` the state of the stream: the item, and what is left.
RECURSIVE StreamNext(_, _, _, _)
StreamNext(items, c, st, done) ==
    IF st = "ended"
    THEN [res |-> Item("None", NoPacket, ""), rx |-> items, cur |-> c, sstate |-> st]
    ELSE IF c # <<>>
    THEN [res |-> Item("Ok", Head(c), ""), rx |-> items, cur |-> Tail(c), sstate |-> st]
    ELSE IF items = <<>>
    THEN IF done
         THEN [res |-> Item("None", NoPacket, ""), rx |-> items, cur |-> c,
               sstate |-> "ended"]
         ELSE [res |-> Item("Pending", NoPacket, ""), rx |-> items, cur |-> c,
               sstate |-> st]
    ELSE IF ~Head(items).ok
    THEN [res |-> Item("Err", NoPacket, "TransportError"), rx |-> Tail(items),
          cur |-> c, sstate |-> "ended"]
    ELSE IF Malformed(Head(items).bytes)
    THEN [res |-> Item("Err", NoPacket, "DecodeError"), rx |-> Tail(items),
          cur |-> c, sstate |-> "ended"]
    ELSE StreamNext(Tail(items), DecodePayload(Head(items).bytes), st, done)

\* The items a step of Socket::stream took from `items` to get to result n,
\* and the items yielded so far with the result of that step added (an item
\* or an error; Pending and the end of the stream yield nothing).
Taken(items, n) == SubSeq(items, 1, Len(items) - Len(n.rx))

Yield(ys, res) == IF res.kind \in {"Ok", "Err"} THEN Append(ys, res) ELSE ys

\* -------------------------------------------------------------------- Init

Init ==
    /\ connected = FALSE
    /\ last_ping = 0
    /\ now = 0
    /\ lock = 0
    /\ wire = <<>>
    /\ handlers \in HandlerSets
    /\ spawned = [e \in Events |-> 0]
    /\ pc = [p \in Callers |-> "idle"]
    /\ op = [p \in Callers |-> "none"]
    /\ arg = [p \in Callers |-> NoPacket]
    /\ ret = [p \in Callers |-> "none"]
    /\ sent = [p \in Callers |-> <<>>]
    /\ calls = 0
    /\ mpc = "idle"
    /\ armed = 0
    /\ deadline = 0
    /\ myield = NoItem
    /\ rx = <<>>
    /\ rx_done = FALSE
    /\ received = 0
    /\ cur = <<>>
    /\ sstate = "running"
    /\ polled = NoItem
    /\ pulled = <<>>
    /\ yielded = <<>>
    /\ tt_max = max_ping_timeout
    /\ tt = NotCalled

\* ------------------------------------------------------------ the callers

callerVars == <<pc, op, arg, ret, sent>>
monitorVars == <<mpc, armed, deadline, myield>>
streamVars == <<rx, rx_done, received, cur, sstate, polled, pulled, yielded>>
clockVars == <<tt_max, tt>>

\* The caller's method returns r.
Return(p, r) ==
    /\ pc' = [pc EXCEPT ![p] = "idle"]
    /\ ret' = [ret EXCEPT ![p] = r]

\* A caller starts method m with packet a.
Begin(p, m, a) ==
    /\ pc[p] = "idle"
    /\ calls < MaxCalls
    /\ calls' = calls + 1
    /\ op' = [op EXCEPT ![p] = m]
    /\ arg' = [arg EXCEPT ![p] = a]
    /\ sent' = [sent EXCEPT ![p] = <<>>]

\* emit returned r to the method that called it: connect and
\* handle_incoming_packet pass the result on (`?`, then Ok), disconnect
\* goes on to its store only after Ok.
EmitReturn(p, r) ==
    IF op[p] = "disconnect" /\ r = "Ok"
    THEN /\ pc' = [pc EXCEPT ![p] = "disconnect_store"]
         /\ ret' = ret
    ELSE Return(p, r)

\* connect: the store of connected and the spawn of on_open.
ConnectStore(p) ==
    /\ Begin(p, "connect", NoPacket)
    /\ connected' = TRUE
    /\ spawned' = Spawn(spawned, "on_open", "")
    /\ pc' = [pc EXCEPT ![p] = "connect_ping"]
    /\ ret' = [ret EXCEPT ![p] = "none"]
    /\ UNCHANGED <<last_ping, now, lock, wire, handlers, monitorVars,
                   streamVars, clockVars>>

\* connect: the store of last_ping; the Pong is emitted next.
ConnectPing(p) ==
    /\ pc[p] = "connect_ping"
    /\ last_ping' = now
    /\ pc' = [pc EXCEPT ![p] = "emit_check"]
    /\ UNCHANGED <<connected, now, lock, wire, handlers, spawned, op, arg, ret,
                   sent, calls, monitorVars, streamVars, clockVars>>

\* A caller calls emit(packet).
EmitCall(p, packet) ==
    /\ Begin(p, "emit", packet)
    /\ pc' = [pc EXCEPT ![p] = "emit_check"]
    /\ ret' = [ret EXCEPT ![p] = "none"]
    /\ UNCHANGED <<connected, last_ping, now, lock, wire, handlers, spawned,
                   monitorVars, streamVars, clockVars>>

\* EmitCheck without the check of connected.
EmitCheck_unguarded(p) ==
    /\ pc[p] = "emit_check"
    /\ pc' = [pc EXCEPT ![p] = "emit_lock"]
    /\ UNCHANGED <<connected, last_ping, now, lock, wire, handlers, spawned,
                   op, arg, ret, sent, calls, monitorVars, streamVars,
                   clockVars>>

\* emit: the load of connected; not connected is IllegalActionBeforeOpen,
\* reported to on_error and returned.
EmitCheck(p) ==
    /\ pc[p] = "emit_check"
    /\ IF ~connected
       THEN /\ spawned' = Spawn(spawned, "on_error", "IllegalActionBeforeOpen")
            /\ EmitReturn(p, "IllegalActionBeforeOpen")
       ELSE /\ pc' = [pc EXCEPT ![p] = "emit_lock"]
            /\ UNCHANGED <<spawned, ret>>
    /\ UNCHANGED <<connected, last_ping, now, lock, wire, handlers, op, arg,
                   sent, calls, monitorVars, streamVars, clockVars>>

\* EmitLock not waiting for the mutex to be free.
EmitLock_nowait(p) ==
    /\ pc[p] = "emit_lock"
    /\ lock' = p
    /\ pc' = [pc EXCEPT ![p] = "emit_send"]
    /\ UNCHANGED <<connected, last_ping, now, wire, handlers, spawned, op, arg,
                   ret, sent, calls, monitorVars, streamVars, clockVars>>

\* emit: self.transport.lock().await
EmitLock(p) ==
    /\ pc[p] = "emit_lock"
    /\ lock = 0
    /\ lock' = p
    /\ pc' = [pc EXCEPT ![p] = "emit_send"]
    /\ UNCHANGED <<connected, last_ping, now, wire, handlers, spawned, op, arg,
                   ret, sent, calls, monitorVars, streamVars, clockVars>>

\* EmitSend that also stores the time of the send into last_ping.
EmitSend_stamps(p) ==
    /\ pc[p] = "emit_send"
    /\ wire' = Append(wire, Frame(Outgoing(p)))
    /\ sent' = [sent EXCEPT ![p] = Append(@, Frame(Outgoing(p)))]
    /\ pc' = [pc EXCEPT ![p] = "emit_await"]
    /\ last_ping' = now
    /\ UNCHANGED <<connected, now, lock, handlers, spawned, op, arg, ret,
                   calls, monitorVars, streamVars, clockVars>>

\* emit: the frame is handed to the transport (as_transport().emit(data, is_binary)).
EmitSend(p) ==
    /\ pc[p] = "emit_send"
    /\ wire' = Append(wire, Frame(Outgoing(p)))
    /\ sent' = [sent EXCEPT ![p] = Append(@, Frame(Outgoing(p)))]
    /\ pc' = [pc EXCEPT ![p] = "emit_await"]
    /\ UNCHANGED <<connected, last_ping, now, lock, handlers, spawned, op, arg,
                   ret, calls, monitorVars, streamVars, clockVars>>

\* EmitDone keeping the guard of the mutex when the transport failed.
EmitDone_keeplock(p, ok) ==
    /\ pc[p] = "emit_await"
    /\ lock' = IF ok THEN 0 ELSE lock
    /\ IF ok
       THEN /\ EmitReturn(p, "Ok")
            /\ UNCHANGED spawned
       ELSE /\ spawned' = Spawn(spawned, "on_error", "TransportError")
            /\ EmitReturn(p, "TransportError")
    /\ UNCHANGED <<connected, last_ping, now, wire, handlers, op, arg, sent,
                   calls, monitorVars, streamVars, clockVars>>

\* emit: the transport's future resolves; an error is reported to on_error
\* and returned; the guard of the mutex is dropped when emit returns.
EmitDone(p, ok) ==
    /\ pc[p] = "emit_await"
    /\ lock' = 0
    /\ IF ok
       THEN /\ EmitReturn(p, "Ok")
            /\ UNCHANGED spawned
       ELSE /\ spawned' = Spawn(spawned, "on_error", "TransportError")
            /\ EmitReturn(p, "TransportError")
    /\ UNCHANGED <<connected, last_ping, now, wire, handlers, op, arg, sent,
                   calls, monitorVars, streamVars, clockVars>>

\* disconnect: the spawn of on_close; the Close packet is emitted next.
DisconnectCall(p) ==
    /\ Begin(p, "disconnect", NoPacket)
    /\ spawned' = Spawn(spawned, "on_close", "")
    /\ pc' = [pc EXCEPT ![p] = "emit_check"]
    /\ ret' = [ret EXCEPT ![p] = "none"]
    /\ UNCHANGED <<connected, last_ping, now, lock, wire, handlers,
                   monitorVars, streamVars, clockVars>>

\* DisconnectStore storing true.
DisconnectStore_true(p) ==
    /\ pc[p] = "disconnect_store"
    /\ connected' = TRUE
    /\ Return(p, "Ok")
    /\ UNCHANGED <<last_ping, now, lock, wire, handlers, spawned, op, arg,
                   sent, calls, monitorVars, streamVars, clockVars>>

\* disconnect: the store of connected, after emit returned Ok.
DisconnectStore(p) ==
    /\ pc[p] = "disconnect_store"
    /\ connected' = FALSE
    /\ Return(p, "Ok")
    /\ UNCHANGED <<last_ping, now, lock, wire, handlers, spawned, op, arg,
                   sent, calls, monitorVars, streamVars, clockVars>>

\* handle_close without the store of connected.
handle_close_nostore(s) ==
    /\ spawned' = Spawn(s, "on_close", "")
    /\ connected' = connected

\* handle_close: the spawn of on_close and the store of connected.
handle_close(s) ==
    /\ spawned' = Spawn(s, "on_close", "")
    /\ connected' = FALSE

\* pinged without the store.
pinged_stale ==
    last_ping' = last_ping

\* pinged: the store of last_ping.
pinged ==
    last_ping' = now

\* handle_incoming_packet taking Pong and Open as it takes Noop.
handle_incoming_packet_lenient(p, packet) ==
    /\ Begin(p, "dispatch", packet)
    /\ LET s == Spawn(spawned, "on_packet", packet.packet_id)
       IN  CASE packet.packet_id \in {"Message", "MessageBinary"} ->
                  /\ spawned' = Spawn(s, "on_data", packet.data)
                  /\ Return(p, "Ok")
                  /\ UNCHANGED <<connected, last_ping>>
             [] packet.packet_id = "Close" ->
                  /\ handle_close(s)
                  /\ Return(p, "Ok")
                  /\ UNCHANGED last_ping
             [] packet.packet_id \in {"Upgrade", "Noop", "Pong", "Open"} ->
                  /\ spawned' = s
                  /\ Return(p, "Ok")
                  /\ UNCHANGED <<connected, last_ping>>
             [] packet.packet_id = "Ping" ->
                  /\ spawned' = s
                  /\ pinged
                  /\ pc' = [pc EXCEPT ![p] = "emit_check"]
                  /\ ret' = [ret EXCEPT ![p] = "none"]
                  /\ UNCHANGED connected
    /\ UNCHANGED <<now, lock, wire, handlers, monitorVars, streamVars,
                   clockVars>>

\* handle_incoming_packet(packet): on_packet is spawned, then the packet is
\* handled by its kind; a Ping goes on to emit the Pong.
handle_incoming_packet(p, packet) ==
    /\ Begin(p, "dispatch", packet)
    /\ LET s == Spawn(spawned, "on_packet", packet.packet_id)
       IN  CASE packet.packet_id \in {"Message", "MessageBinary"} ->
                  /\ spawned' = Spawn(s, "on_data", packet.data)
                  /\ Return(p, "Ok")
                  /\ UNCHANGED <<connected, last_ping>>
             [] packet.packet_id = "Close" ->
                  /\ handle_close(s)
                  /\ Return(p, "Ok")
                  /\ UNCHANGED last_ping
             [] packet.packet_id \in {"Upgrade", "Noop"} ->
                  /\ spawned' = s
                  /\ Return(p, "Ok")
                  /\ UNCHANGED <<connected, last_ping>>
             [] packet.packet_id = "Ping" ->
                  /\ spawned' = s
                  /\ pinged
                  /\ pc' = [pc EXCEPT ![p] = "emit_check"]
                  /\ ret' = [ret EXCEPT ![p] = "none"]
                  /\ UNCHANGED connected
             [] packet.packet_id \in {"Pong", "Open"} ->
                  /\ spawned' = s
                  /\ Return(p, "InvalidPacket")
                  /\ UNCHANGED <<connected, last_ping>>
    /\ UNCHANGED <<now, lock, wire, handlers, monitorVars, streamVars,
                   clockVars>>

\* ------------------------------------------------ the enforce_timeout stream

\* A pull: tokio::time::timeout is armed with time_to_next_ping seconds.
MonitorPull ==
    /\ mpc = "idle"
    /\ calls < MaxCalls
    /\ calls' = calls + 1
    /\ armed' = time_to_next_ping(now, last_ping, max_ping_timeout)
    /\ deadline' = now + armed'
    /\ mpc' = "racing"
    /\ UNCHANGED <<connected, last_ping, now, lock, wire, handlers, spawned,
                   callerVars, myield, streamVars, clockVars>>

\* Err(Elapsed): the connection is considered closed, on_close is spawned
\* and Err(PingTimeout) is yielded.
MonitorElapsed ==
    /\ mpc = "racing"
    /\ StreamNext(rx, cur, sstate, rx_done).res.kind = "Pending"
    /\ now >= deadline
    /\ connected' = FALSE
    /\ spawned' = Spawn(spawned, "on_close", "")
    /\ myield' = Item("Err", NoPacket, "PingTimeout")
    /\ mpc' = "idle"
    /\ UNCHANGED <<last_ping, now, lock, wire, handlers, callerVars, calls,
                   armed, deadline, streamVars, clockVars>>

\* Ok(result): the wrapped stream had its next item first; the item is
\* passed on unchanged, and the end of the wrapped stream ends this one.
MonitorItem ==
    /\ mpc = "racing"
    /\ LET n == StreamNext(rx, cur, sstate, rx_done)
       IN  /\ n.res.kind # "Pending"
           /\ rx' = n.rx
           /\ cur' = n.cur
           /\ sstate' = n.sstate
           /\ myield' = n.res
           /\ pulled' = pulled \o Taken(rx, n)
           /\ yielded' = Yield(yielded, n.res)
           /\ mpc' = IF n.res.kind = "None" THEN "ended" ELSE "idle"
    /\ UNCHANGED <<connected, last_ping, now, lock, wire, handlers, spawned,
                   callerVars, calls, armed, deadline, rx_done, received,
                   polled, clockVars>>

\* ------------------------------------------------ the transport's byte stream

TransportReceive(item) ==
    /\ ~rx_done
    /\ received < MaxPayloads
    /\ received' = received + 1
    /\ rx' = Append(rx, item)
    /\ UNCHANGED <<connected, last_ping, now, lock, wire, handlers, spawned,
                   callerVars, calls, monitorVars, rx_done, cur, sstate,
                   polled, pulled, yielded, clockVars>>

TransportEnd ==
    /\ ~rx_done
    /\ rx_done' = TRUE
    /\ UNCHANGED <<connected, last_ping, now, lock, wire, handlers, spawned,
                   callerVars, calls, monitorVars, rx, received, cur, sstate,
                   polled, pulled, yielded, clockVars>>

\* ------------------------------------------- impl Stream for Socket: poll_next

\* The generator (Socket::stream over the transport) is polled: its item or
\* its end is returned; when the generator is pending, Poll::Pending is
\* returned, whatever the time to the next ping (ttnp) computed before.
poll_next ==
    LET ttnp == time_to_next_ping(now, last_ping, max_ping_timeout)
        n == StreamNext(rx, cur, sstate, rx_done)
    IN  /\ rx' = n.rx
        /\ cur' = n.cur
        /\ sstate' = n.sstate
        /\ polled' = n.res
        /\ pulled' = pulled \o Taken(rx, n)
        /\ yielded' = Yield(yielded, n.res)
        /\ UNCHANGED <<connected, last_ping, now, lock, wire, handlers,
                       spawned, callerVars, calls, monitorVars, rx_done,
                       received, clockVars>>

\* The consumer of the Socket hands the packet it pulled to
\* handle_incoming_packet.
ConsumerDispatch(p) ==
    /\ polled.kind = "Ok"
    /\ handle_incoming_packet(p, polled.packet)

\* ---------------------------------------------------------------- the clock

Tick ==
    /\ now + TickStep <= MaxTime
    /\ now' = now + TickStep
    /\ UNCHANGED <<connected, last_ping, lock, wire, handlers, spawned,
                   callerVars, calls, monitorVars, streamVars, clockVars>>

\* ------------------------------------------------------------ specification

Next ==
    \/ \E p \in Callers : ConnectStore(p)
    \/ \E p \in Callers : ConnectPing(p)
    \/ \E p \in Callers, packet \in EmitPackets : EmitCall(p, packet)
    \/ \E p \in Callers : EmitCheck(p)
    \/ \E p \in Callers : EmitLock(p)
    \/ \E p \in Callers : EmitSend(p)
    \/ \E p \in Callers, ok \in BOOLEAN : EmitDone(p, ok)
    \/ \E p \in Callers : DisconnectCall(p)
    \/ \E p \in Callers : DisconnectStore(p)
    \/ \E p \in Callers, packet \in InboundPackets : handle_incoming_packet(p, packet)
    \/ MonitorPull
    \/ MonitorElapsed
    \/ Tick

Spec == Init /\ [][Next]_vars

\* The Socket consumed as a stream: one task that connects, pulls the packets
\* and dispatches them, while the transport produces payloads.
StreamCallers == {1}

NextStream ==
    \/ \E p \in StreamCallers : ConnectStore(p)
    \/ \E p \in StreamCallers : ConnectPing(p)
    \/ \E p \in StreamCallers : EmitCheck(p)
    \/ \E p \in StreamCallers : EmitLock(p)
    \/ \E p \in StreamCallers : EmitSend(p)
    \/ \E p \in StreamCallers, ok \in BOOLEAN : EmitDone(p, ok)
    \/ \E p \in StreamCallers : ConsumerDispatch(p)
    \/ \E item \in TransportItems : TransportReceive(item)
    \/ TransportEnd
    \/ poll_next
    \/ Tick

SpecStream == Init /\ [][NextStream]_vars

\* The enforce_timeout stream wrapped around Socket::stream, pulled while the
\* transport produces payloads, pings are dispatched and the clock advances.
NextMonitor ==
    \/ \E p \in StreamCallers : ConnectStore(p)
    \/ \E p \in StreamCallers : ConnectPing(p)
    \/ \E p \in StreamCallers : EmitCheck(p)
    \/ \E p \in StreamCallers : EmitLock(p)
    \/ \E p \in StreamCallers : EmitSend(p)
    \/ \E p \in StreamCallers, ok \in BOOLEAN : EmitDone(p, ok)
    \/ \E p \in StreamCallers : handle_incoming_packet(p, Packet("Ping", ""))
    \/ \E item \in TransportItems : TransportReceive(item)
    \/ TransportEnd
    \/ MonitorPull
    \/ MonitorItem
    \/ MonitorElapsed
    \/ Tick

SpecMonitor == Init /\ [][NextMonitor]_vars

\* A session that is opened, used for sends and closed by its callers, with
\* the scheduling the runtime gives: a task that can take its next step takes
\* it, a task waiting for the transport mutex gets it when it is free often
\* enough (the mutex queues its waiters), and a send handed to the transport
\* returns, with Ok or with an error.
NextClose ==
    \/ \E p \in Callers : ConnectStore(p)
    \/ \E p \in Callers : ConnectPing(p)
    \/ \E p \in Callers, packet \in EmitPackets : EmitCall(p, packet)
    \/ \E p \in Callers : EmitCheck(p)
    \/ \E p \in Callers : EmitLock(p)
    \/ \E p \in Callers : EmitSend(p)
    \/ \E p \in Callers, ok \in BOOLEAN : EmitDone(p, ok)
    \/ \E p \in Callers : DisconnectCall(p)
    \/ \E p \in Callers : DisconnectStore(p)

FairClose ==
    \A p \in Callers :
        /\ WF_vars(ConnectPing(p))
        /\ WF_vars(EmitCheck(p))
        /\ SF_vars(EmitLock(p))
        /\ WF_vars(EmitSend(p))
        /\ WF_vars(\E ok \in BOOLEAN : EmitDone(p, ok))
        /\ WF_vars(DisconnectStore(p))

SpecClose == Init /\ [][NextClose]_vars /\ FairClose

\* A call of time_to_next_ping, for every reading of the wall clock, every
\* stored last_ping and every max_ping_timeout: the wall clock is not
\* monotonic, so the reading can be smaller than the time stored.
InitClock ==
    /\ connected = FALSE
    /\ last_ping \in U64
    /\ now \in U64
    /\ lock = 0
    /\ wire = <<>>
    /\ handlers = {}
    /\ spawned = [e \in Events |-> 0]
    /\ pc = [p \in Callers |-> "idle"]
    /\ op = [p \in Callers |-> "none"]
    /\ arg = [p \in Callers |-> NoPacket]
    /\ ret = [p \in Callers |-> "none"]
    /\ sent = [p \in Callers |-> <<>>]
    /\ calls = 0
    /\ mpc = "idle"
    /\ armed = 0
    /\ deadline = 0
    /\ myield = NoItem
    /\ rx = <<>>
    /\ rx_done = FALSE
    /\ received = 0
    /\ cur = <<>>
    /\ sstate = "running"
    /\ polled = NoItem
    /\ pulled = <<>>
    /\ yielded = <<>>
    /\ tt_max \in U64
    /\ tt = NotCalled

TimeToNextPing ==
    /\ tt = NotCalled
    /\ tt' \in time_to_next_ping_outcomes(now, last_ping, tt_max)
    /\ UNCHANGED <<connected, last_ping, now, lock, wire, handlers, spawned,
                   callerVars, calls, monitorVars, streamVars, tt_max>>

NextClock == TimeToNextPing

SpecClock == InitClock /\ [][NextClock]_vars

\* ------------------------------------------------------------------ claims

OnClose == <<"on_close", "">>
PongFrame == Frame(Packet("Pong", ""))

\* C1 (as claimed): a poll of the Socket that finds a connected session with
\* no time left until the next ping is due and nothing ready in the generator
\* yields Err(PingTimeout), leaves the session disconnected and spawns
\* on_close once.
C1_PollYieldsPingTimeout ==
    [][(/\ polled' # polled
        /\ connected
        /\ time_to_next_ping(now, last_ping, max_ping_timeout) = 0
        /\ StreamNext(rx, cur, sstate, rx_done).res.kind = "Pending")
       => (/\ polled' = Item("Err", NoPacket, "PingTimeout")
           /\ ~connected'
           /\ spawned' = Spawn(spawned, "on_close", ""))]_vars

\* C2: an emit that loads connected as false returns
\* IllegalActionBeforeOpen in that step, spawns on_error with it, does not
\* take the transport lock, hands no frame to the transport and leaves
\* connected and last_ping as they are.
C2_EmitBeforeOpenFails ==
    [][\A p \in Callers :
        (pc[p] = "emit_check" /\ ~connected /\ pc'[p] # pc[p])
        => (/\ pc'[p] = "idle"
            /\ ret'[p] = "IllegalActionBeforeOpen"
            /\ spawned' = Spawn(spawned, "on_error", "IllegalActionBeforeOpen")
            /\ lock' = lock
            /\ lock # p
            /\ wire' = wire
            /\ sent'[p] = <<>>
            /\ connected' = connected
            /\ last_ping' = last_ping)]_vars

\* An emit before any connect has returned IllegalActionBeforeOpen and
\* on_error was spawned; nothing is on the wire.
C2_Witness ==
    \E p \in Callers :
        /\ op[p] = "emit"
        /\ pc[p] = "idle"
        /\ ret[p] = "IllegalActionBeforeOpen"
        /\ spawned[<<"on_error", "IllegalActionBeforeOpen">>] = 1
        /\ wire = <<>>
        /\ ~connected

\* C3 (as claimed): the first frame handed to the transport is the empty Pong
\* of connect, and a connect that has returned has handed over exactly that
\* one frame.
C3_PongIsFirstFrame ==
    /\ wire # <<>> => wire[1] = PongFrame
    /\ \A p \in Callers :
        (op[p] = "connect" /\ pc[p] = "idle") => sent[p] = <<PongFrame>>

\* C4 (as claimed): a dispatch of a Ping that has returned has handed exactly
\* one empty Pong to the transport, whatever the connection state.
C4_PingAlwaysAnswered ==
    \A p \in Callers :
        (op[p] = "dispatch" /\ arg[p].packet_id = "Ping" /\ pc[p] = "idle")
        => sent[p] = <<PongFrame>>

\* C4 (amended): the dispatch of a Ping stores the time of receipt in
\* last_ping, so that the time to the next ping is max_ping_timeout at that
\* moment; when it returns it has handed exactly one empty Pong to the
\* transport, unless its emit found the session not connected: then it has
\* handed over nothing and returns IllegalActionBeforeOpen.
C4_PingAnsweredWhenConnected ==
    [][\A p \in Callers :
        /\ handle_incoming_packet(p, Packet("Ping", ""))
           => (/\ last_ping' = now
               /\ time_to_next_ping(now', last_ping', max_ping_timeout)
                    = max_ping_timeout)
        /\ (op[p] = "dispatch" /\ arg[p].packet_id = "Ping"
              /\ pc[p] # "idle" /\ pc'[p] = "idle")
           => IF pc[p] = "emit_check"
              THEN ret'[p] = "IllegalActionBeforeOpen" /\ sent'[p] = <<>>
              ELSE ret'[p] \in {"Ok", "TransportError"} /\ sent'[p] = <<PongFrame>>]_vars

\* A Ping dispatched later than the construction on a connected session has
\* been answered: last_ping was moved and the Pong is on the wire.
C4_Witness ==
    \E p \in Callers :
        /\ op[p] = "dispatch"
        /\ arg[p].packet_id = "Ping"
        /\ pc[p] = "idle"
        /\ ret[p] = "Ok"
        /\ sent[p] = <<PongFrame>>
        /\ last_ping > 0

\* C5 (as claimed): in the life of a session that was opened once, on_close
\* is spawned at most once, and once when a disconnect, a dispatch of Close or
\* a timeout has taken place.
C5_OnCloseExactlyOnce ==
    ("on_close" \in handlers /\ spawned[<<"on_open", "">>] = 1) =>
        /\ spawned[OnClose] <= 1
        /\ ((\/ \E p \in Callers :
                  /\ pc[p] = "idle"
                  /\ \/ op[p] = "disconnect"
                     \/ op[p] = "dispatch" /\ arg[p].packet_id = "Close"
             \/ myield = Item("Err", NoPacket, "PingTimeout"))
            => spawned[OnClose] = 1)

\* C6 (as claimed): whenever disconnect returns, Ok or an error, the session
\* is disconnected.
C6_DisconnectEndsDisconnected ==
    [][\A p \in Callers :
        (op[p] = "disconnect" /\ pc[p] # "idle" /\ pc'[p] = "idle")
        => ~connected']_vars

\* C7 (as claimed): a session that was opened and is disconnected stays
\* disconnected.
C7_NeverReopens ==
    [][(spawned[<<"on_open", "">>] > 0 /\ ~connected) => ~connected']_vars

\* C8 (as claimed): while the session is disconnected no frame is handed to
\* the transport.
C8_NoFrameAfterClose ==
    [][~connected => wire' = wire]_vars

\* C9: the dispatch of a Close packet stores false in connected and spawns
\* on_close (after on_packet) in one step that returns Ok, takes no lock and
\* hands no frame to the transport.
C9_CloseDispatchDisconnects ==
    [][\A p \in Callers :
        handle_incoming_packet(p, Packet("Close", ""))
        => (/\ ~connected'
            /\ spawned' = Spawn(Spawn(spawned, "on_packet", "Close"), "on_close", "")
            /\ pc'[p] = "idle"
            /\ ret'[p] = "Ok"
            /\ sent'[p] = <<>>
            /\ wire' = wire
            /\ lock' = lock)]_vars

\* A Close packet was dispatched on a connected session: the session is
\* disconnected, on_close was spawned, and no disconnect ran: the only frame
\* on the wire is the Pong of connect.
C9_Witness ==
    \E p \in Callers :
        /\ op[p] = "dispatch"
        /\ arg[p].packet_id = "Close"
        /\ pc[p] = "idle"
        /\ ~connected
        /\ spawned[<<"on_open", "">>] = 1
        /\ spawned[OnClose] = 1
        /\ wire = <<PongFrame>>
        /\ \A q \in Callers : op[q] # "disconnect"

\* A step of the disconnect that caller p runs.
DisconnectStep(p) ==
    \/ DisconnectCall(p)
    \/ /\ op[p] = "disconnect"
       /\ \/ EmitCheck(p)
          \/ EmitLock(p)
          \/ EmitSend(p)
          \/ \E ok \in BOOLEAN : EmitDone(p, ok)
          \/ DisconnectStore(p)

\* C10: no step of a disconnect on a disconnected session connects it, and
\* the disconnect whose emit finds the session disconnected returns
\* IllegalActionBeforeOpen, an ordinary error, without a frame handed over.
C10_DisconnectIdempotent ==
    [][\A p \in Callers :
        (DisconnectStep(p) /\ ~connected)
        => (/\ ~connected'
            /\ (pc[p] = "emit_check"
                  => /\ pc'[p] = "idle"
                     /\ ret'[p] = "IllegalActionBeforeOpen"
                     /\ wire' = wire))]_vars

\* Two disconnects of a session that was never connected have both returned
\* their error, and the session is disconnected.
C10_Witness ==
    /\ ~connected
    /\ spawned[<<"on_open", "">>] = 0
    /\ \A p \in Callers :
        /\ op[p] = "disconnect"
        /\ pc[p] = "idle"
        /\ ret[p] = "IllegalActionBeforeOpen"

\* C11: an emit that passed the check of connected and whose transport send
\* fails spawns on_error with the failure, returns that failure, releases the
\* transport lock it held and leaves connected as it is; no step of an emit
\* stores connected.
C11_SendFailureReported ==
    [][\A p \in Callers :
        /\ (pc[p] = "emit_await" /\ pc'[p] # pc[p] /\ ret'[p] = "TransportError")
           => (/\ pc'[p] = "idle"
               /\ lock = p
               /\ lock' = 0
               /\ spawned' = Spawn(spawned, "on_error", "TransportError")
               /\ sent[p] = <<Frame(Outgoing(p))>>
               /\ wire' = wire
               /\ connected' = connected)
        /\ (pc[p] \in {"emit_check", "emit_lock", "emit_send", "emit_await"}
            /\ pc'[p] # pc[p])
           => connected' = connected]_vars

\* A user emit on a connected session has returned TransportError; on_error
\* was spawned with it, the lock is free and the session is still connected.
C11_Witness ==
    \E p \in Callers :
        /\ op[p] = "emit"
        /\ pc[p] = "idle"
        /\ ret[p] = "TransportError"
        /\ spawned[<<"on_error", "TransportError">>] = 1
        /\ lock = 0
        /\ connected

\* C12: the dispatch of an inbound Pong or Open returns InvalidPacket in that
\* step; it leaves connected and last_ping as they are, does not take the
\* transport lock and hands no frame to the transport.
C12_PongOpenRejected ==
    [][\A p \in Callers : \A id \in {"Pong", "Open"} :
        handle_incoming_packet(p, Packet(id, ""))
        => (/\ pc'[p] = "idle"
            /\ ret'[p] = "InvalidPacket"
            /\ connected' = connected
            /\ last_ping' = last_ping
            /\ lock' = lock
            /\ wire' = wire
            /\ sent'[p] = <<>>)]_vars

\* On a connected session whose last ping is older than the clock, a Pong was
\* dispatched: InvalidPacket came back, and the only frame on the wire is the
\* Pong of connect.
C12_Witness ==
    \E p \in Callers :
        /\ op[p] = "dispatch"
        /\ arg[p].packet_id = "Pong"
        /\ pc[p] = "idle"
        /\ ret[p] = "InvalidPacket"
        /\ connected
        /\ last_ping < now
        /\ wire = <<PongFrame>>

\* The callers that are inside the transport's send: between the lock of the
\* transport mutex and the return of emit.
InSend == {p \in Callers : pc[p] \in {"emit_send", "emit_await"}}

\* C14: at most one emit is inside the transport's send, and it is the one
\* that holds the transport lock; a caller that is not inside the send does
\* not hold the lock (it was released on the Ok and on the Err return); and
\* while a caller holds the lock, the only frame that reaches the wire is its
\* own, once, so the frames reach the wire in the order of the lock.
C14_SendsMutuallyExclusive ==
    /\ [](/\ Cardinality(InSend) <= 1
          /\ \A p \in Callers : p \in InSend <=> lock = p
          /\ InSend = {} <=> lock = 0)
    /\ [][/\ \A p \in Callers :
              /\ pc[p] = "emit_send"
                 => \/ wire' = wire
                    \/ /\ wire' = Append(wire, Frame(Outgoing(p)))
                       /\ pc'[p] = "emit_await"
              /\ pc[p] = "emit_await" => wire' = wire
          /\ lock = 0 => wire' = wire]_vars

\* One caller is inside the send holding the lock, its frame not yet on the
\* wire, while the other caller waits for the lock.
C14_Witness ==
    \E p, q \in Callers :
        /\ pc[p] = "emit_send"
        /\ lock = p
        /\ pc[q] = "emit_lock"
        /\ op[p] = "emit"
        /\ op[q] = "emit"

\* C19 (as claimed): last_ping changes only in the step that dispatches an
\* inbound Ping.
C19_OnlyPingStores ==
    [][last_ping' # last_ping
       => \E p \in Callers : handle_incoming_packet(p, Packet("Ping", ""))]_vars

\* C19 (amended): last_ping changes only in the step that dispatches an
\* inbound Ping or in the store of connect; the steps of emit and disconnect,
\* the timeout branch and the dispatch of every other kind leave it as it is.
C19_OnlyPingOrConnectStores ==
    [][last_ping' # last_ping
       => \E p \in Callers :
            \/ handle_incoming_packet(p, Packet("Ping", ""))
            \/ ConnectPing(p)]_vars

\* A Ping dispatched one tick after connect moved last_ping there; the Pong
\* reply and a disconnect that ran a tick later left it there.
C19_Witness ==
    /\ last_ping = TickStep
    /\ now = 2 * TickStep
    /\ \E p \in Callers :
        /\ op[p] = "disconnect"
        /\ pc[p] = "idle"
        /\ ret[p] = "Ok"
    /\ Len(wire) >= 3

\* C20 (as claimed): an operation that has spawned on_close leaves connected
\* false when it returns: a disconnect that returns, with Ok or with an
\* error, the dispatch of a Close, and the timeout branch of enforce_timeout.
C20_OnCloseLeavesDisconnected ==
    [][("on_close" \in handlers)
       => /\ \A p \in Callers :
               /\ (op[p] = "disconnect" /\ pc[p] # "idle" /\ pc'[p] = "idle")
                  => ~connected'
               /\ handle_incoming_packet(p, Packet("Close", "")) => ~connected'
          /\ MonitorElapsed => ~connected']_vars

\* C15 (as claimed): under fair scheduling and sends that return, every call
\* in flight returns, and a disconnect that is in flight together with an
\* emit returns with the session disconnected.
C15_DisconnectSafe ==
    \A p \in Callers :
        /\ (pc[p] # "idle") ~> (pc[p] = "idle")
        /\ (/\ op[p] = "disconnect"
            /\ pc[p] # "idle"
            /\ \E q \in Callers : op[q] = "emit" /\ pc[q] # "idle")
           ~> (pc[p] = "idle" /\ ~connected)

\* The part of C15 that holds: every call in flight returns.
C15_CallsReturn ==
    \A p \in Callers : (pc[p] # "idle") ~> (pc[p] = "idle")

\* The packets of the payloads in `items`, in order, up to the first item
\* that is an error of the transport or a payload that fails to decode.
RECURSIVE PacketsOf(_)
PacketsOf(items) ==
    IF items = <<>> \/ ~Head(items).ok \/ Malformed(Head(items).bytes)
    THEN <<>>
    ELSE DecodePayload(Head(items).bytes) \o PacketsOf(Tail(items))

\* The packets Socket::stream has yielded, in order.
YieldedPackets ==
    LET oks == SelectSeq(yielded, LAMBDA y : y.kind = "Ok")
    IN  [i \in 1..Len(oks) |-> oks[i].packet]

\* The payloads pulled so far that failed to decode (their positions).
DecodeFailures ==
    {i \in 1..Len(pulled) : pulled[i].ok /\ Malformed(pulled[i].bytes)}

\* C13: the packets yielded so far, followed by the packets still waiting in
\* the current payload, are exactly the packets of the payloads pulled so
\* far, in their order (none dropped, doubled or out of place, a payload of
\* no packets adding none); and the packets still waiting are a tail of the
\* payload pulled last, so every packet of a payload is yielded before the
\* next payload is pulled.
C13_PacketsInOrder ==
    /\ YieldedPackets \o cur = PacketsOf(pulled)
    /\ cur # <<>>
       => /\ pulled # <<>>
          /\ pulled[Len(pulled)].ok
          /\ ~Malformed(pulled[Len(pulled)].bytes)
          /\ LET d == DecodePayload(pulled[Len(pulled)].bytes)
             IN  \E k \in 1..Len(d) : cur = SubSeq(d, k + 1, Len(d))

\* Two payloads were pulled, one of two packets and one of one, and all three
\* packets were yielded.
C13_Witness ==
    /\ Len(pulled) = 2
    /\ Len(PacketsOf(pulled)) = 3
    /\ Len(yielded) = 3
    /\ cur = <<>>

\* C16: once a payload that fails to decode has been pulled, it is the last
\* item pulled, the stream has ended, the last item yielded is the
\* DecodeError, and the packets yielded are those of the payloads before it
\* (none of the failing payload, none of a later one); a poll of the ended
\* stream returns its end and takes nothing from the transport.
C16_DecodeErrorEnds ==
    /\ [](DecodeFailures # {}
          => /\ DecodeFailures = {Len(pulled)}
             /\ sstate = "ended"
             /\ cur = <<>>
             /\ yielded # <<>>
             /\ yielded[Len(yielded)] = Item("Err", NoPacket, "DecodeError")
             /\ YieldedPackets = PacketsOf(SubSeq(pulled, 1, Len(pulled) - 1))
             /\ Len(yielded) = Len(YieldedPackets) + 1)
    /\ [][(sstate = "ended" /\ polled' # polled)
          => (/\ polled' = Item("None", NoPacket, "")
              /\ rx' = rx
              /\ pulled' = pulled
              /\ yielded' = yielded)]_vars

\* The first payload pulled failed to decode: the error is the only item
\* yielded, the next poll returned the end of the stream, and a later payload
\* is still with the transport.
C16_Witness ==
    /\ Len(pulled) = 1
    /\ DecodeFailures = {1}
    /\ yielded = <<Item("Err", NoPacket, "DecodeError")>>
    /\ polled = Item("None", NoPacket, "")
    /\ rx # <<>>

\* C17 (as claimed): on a connected session, a pull of the enforce_timeout
\* stream whose timeout was armed with zero seconds resolves to the timeout
\* branch, whether or not the wrapped stream has an item ready: connected is
\* stored false, on_close is spawned and Err(PingTimeout) is yielded.
C17_ZeroTimeIsTimeout ==
    [][(connected /\ mpc = "racing" /\ armed = 0 /\ mpc' # "racing")
       => (/\ myield' = Item("Err", NoPacket, "PingTimeout")
           /\ ~connected'
           /\ spawned' = Spawn(spawned, "on_close", ""))]_vars

\* The part of C17 that holds: a pull armed with zero seconds never has to
\* wait (its timer has elapsed when it is armed, so one of the two branches
\* can be taken at once), and it resolves to the timeout branch when the
\* wrapped stream has nothing ready.
C17_ZeroTimeNeverWaits ==
    /\ []((mpc = "racing" /\ armed = 0)
          => (now >= deadline /\ ENABLED (MonitorElapsed \/ MonitorItem)))
    /\ [][(/\ mpc = "racing"
           /\ armed = 0
           /\ mpc' # "racing"
           /\ StreamNext(rx, cur, sstate, rx_done).res.kind = "Pending")
          => (/\ myield' = Item("Err", NoPacket, "PingTimeout")
              /\ ~connected'
              /\ spawned' = Spawn(spawned, "on_close", ""))]_vars

\* max(0, x)
Max0(x) == IF x > 0 THEN x ELSE 0

\* C18 (as claimed): for every clock reading, last_ping and max_ping_timeout
\* of u64, also with the clock reading smaller than last_ping, a call of
\* time_to_next_ping returns (it does not panic), no subtraction in it leaves
\* the range of u64, and the value is max(0, max - (now - last_ping)) and at
\* most max.
C18_TimeToNextPing ==
    tt # NotCalled
    => /\ tt.kind = "Returned"
       /\ now - last_ping \in U64
       /\ tt.value = Max0(tt_max - (now - last_ping))
       /\ tt.value <= tt_max

\* The part of C18 that holds: with the clock reading not smaller than
\* last_ping the call returns max(0, max - (now - last_ping)), at most max;
\* and whenever the call returns, the value is at most max.
C18_WhenClockNotBehind ==
    /\ (tt # NotCalled /\ now >= last_ping)
       => /\ tt.kind = "Returned"
          /\ tt.value = Max0(tt_max - (now - last_ping))
    /\ tt.kind = "Returned" => tt.value \in 0..tt_max

====
